---------------------------- MODULE Spec2Model ----------------------------
(***************************************************************************)
(* A model of script/gemini-review.js: the pull-request review script.     *)
(*                                                                         *)
(*   - getDiffPosition (the diff position resolver) is modelled one loop   *)
(*     iteration per step, under SpecResolver;                             *)
(*   - the cleaning and parsing of the model's inline response is modelled *)
(*     as operators on character sequences, exercised under SpecSanitizer; *)
(*   - the top-level script and main() are modelled one await per step,    *)
(*     under Spec.                                                         *)
(*                                                                         *)
(* JavaScript strings are sequences of one-character strings, so that      *)
(* startsWith, split, replace, trim, the hunk-header regular expression    *)
(* and JSON.parse are computed on the characters as the code computes      *)
(* them.  JavaScript values are tagged records (see "JavaScript values").  *)
(***************************************************************************)
EXTENDS Integers, Sequences, FiniteSets, TLC

\* ------------------------------------------------------------------------
\* Bounds of the model
\* ------------------------------------------------------------------------

\* Longest patch, in lines, drawn from the pool of patch lines.
MaxPatchLines == 3

\* Largest target line handed to getDiffPosition.
MaxTarget == 5

\* Longest model output, in characters, drawn from the sanitizer's alphabet.
MaxTextLen == 3

\* ------------------------------------------------------------------------
\* JavaScript values
\* ------------------------------------------------------------------------

Undefined == [t |-> "undefined"]

Null == [t |-> "null"]

JNum(n) == [t |-> "num", v |-> n]

JStr(s) == [t |-> "str", v |-> s]

JBool(b) == [t |-> "bool", v |-> b]

\* An array: v is the sequence of its elements.
JArr(a) == [t |-> "arr", v |-> a]

\* An object: v is the sequence of its <<key, value>> members, in source order.
JObj(m) == [t |-> "obj", v |-> m]

\* ------------------------------------------------------------------------
\* Strings as character sequences
\* ------------------------------------------------------------------------

Digits == {"0", "1", "2", "3", "4", "5", "6", "7", "8", "9"}

DigitValue(c) ==
    CASE c = "0" -> 0 [] c = "1" -> 1 [] c = "2" -> 2 [] c = "3" -> 3
      [] c = "4" -> 4 [] c = "5" -> 5 [] c = "6" -> 6 [] c = "7" -> 7
      [] c = "8" -> 8 [] c = "9" -> 9

\* String.prototype.startsWith
StartsWith(s, prefix) ==
    /\ Len(s) >= Len(prefix)
    /\ SubSeq(s, 1, Len(prefix)) = prefix

\* The rest of s from index i on (s.slice(i - 1) in JavaScript's 0-based terms).
From(s, i) == SubSeq(s, i, Len(s))

RECURSIVE Split(_, _)
\* String.prototype.split with a one-character separator.
Split(s, sep) ==
    IF \A i \in 1..Len(s) : s[i] # sep
    THEN <<s>>
    ELSE LET i == CHOOSE k \in 1..Len(s) :
                      /\ s[k] = sep
                      /\ \A j \in 1..(k - 1) : s[j] # sep
         IN <<SubSeq(s, 1, i - 1)>> \o Split(From(s, i + 1), sep)

RECURSIVE Join(_, _)
\* Array.prototype.join: the lines of a patch as the hosting API returns them.
Join(ls, sep) ==
    IF Len(ls) = 0 THEN <<>>
    ELSE IF Len(ls) = 1 THEN ls[1]
    ELSE ls[1] \o <<sep>> \o Join(Tail(ls), sep)

\* The first index at or after i of s that holds no digit (Len(s) + 1 if none).
DigitRunEnd(s, i) ==
    CHOOSE e \in i..(Len(s) + 1) :
        /\ \A j \in i..(e - 1) : s[j] \in Digits
        /\ (e <= Len(s) => s[e] \notin Digits)

RECURSIVE parseIntFrom(_, _)
parseIntFrom(ds, acc) ==
    IF Len(ds) = 0 THEN acc
    ELSE parseIntFrom(Tail(ds), 10 * acc + DigitValue(Head(ds)))

\* parseInt(digits, 10) of a non-empty run of decimal digits.
parseInt(ds) == parseIntFrom(ds, 0)

\* ------------------------------------------------------------------------
\* getDiffPosition: the hunk-header regular expression
\* ------------------------------------------------------------------------

AtAt == <<"@", "@">>

Plus == <<"+">>

Minus == <<"-">>

NoMatch == [ok |-> FALSE, group1 |-> <<>>]

\* /@@ -\d+(?:,\d+)? \+(\d+)/ tried at index i of line.  Every digit run is
\* followed by a character that is no digit, so the greedy match is the only one.
HunkRegexAt(s, i) ==
    IF ~StartsWith(From(s, i), <<"@", "@", " ", "-">>) THEN NoMatch
    ELSE
      LET d1 == DigitRunEnd(s, i + 4)
          k  == IF /\ d1 <= Len(s)
                   /\ s[d1] = ","
                   /\ DigitRunEnd(s, d1 + 1) > d1 + 1
                THEN DigitRunEnd(s, d1 + 1)
                ELSE d1
          e  == DigitRunEnd(s, k + 2)
      IN IF /\ d1 > i + 4
            /\ StartsWith(From(s, k), <<" ", "+">>)
            /\ e > k + 2
         THEN [ok |-> TRUE, group1 |-> SubSeq(s, k + 2, e - 1)]
         ELSE NoMatch

\* RegExp.prototype.exec: the leftmost match.
HunkRegexExec(s) ==
    IF \A i \in 1..Len(s) : ~HunkRegexAt(s, i).ok THEN NoMatch
    ELSE HunkRegexAt(s, CHOOSE i \in 1..Len(s) :
                            /\ HunkRegexAt(s, i).ok
                            /\ \A j \in 1..(i - 1) : ~HunkRegexAt(s, j).ok)

\* ------------------------------------------------------------------------
\* getDiffPosition: one iteration of the loop over the patch's lines
\* ------------------------------------------------------------------------

\* A plausible slip: the position counter restarts at every hunk header.
PositionResetAtHeader(position, line) ==
    IF StartsWith(line, AtAt) THEN 1 ELSE position + 1

\* position++ : every line of the patch counts.
NextPosition(position, line) == position + 1

\* fileLine after the iteration on line.
NextFileLine(fileLine, line) ==
    IF StartsWith(line, AtAt)
    THEN LET match == HunkRegexExec(line)
         IN IF match.ok THEN parseInt(match.group1) - 1 ELSE fileLine
    ELSE IF StartsWith(line, Plus) THEN fileLine + 1
    ELSE IF ~StartsWith(line, Minus) THEN fileLine + 1
    ELSE fileLine

\* Whether the iteration on line returns the position.
ReturnsAt(fileLine, line, target) ==
    /\ ~StartsWith(line, AtAt)
    /\ StartsWith(line, Plus)
    /\ fileLine + 1 = target

\* !patch : undefined and the empty string are falsy.
NoPatch(p) == p = Undefined \/ (p.t = "str" /\ p.v = <<>>)

RECURSIVE ScanFrom(_, _, _, _, _)
\* The loop of getDiffPosition from line i on, as a function.
ScanFrom(ls, i, fileLine, position, target) ==
    IF i > Len(ls) THEN Null
    ELSE IF ReturnsAt(fileLine, ls[i], target)
         THEN JNum(NextPosition(position, ls[i]))
         ELSE ScanFrom(ls, i + 1, NextFileLine(fileLine, ls[i]),
                       NextPosition(position, ls[i]), target)

\* getDiffPosition(patch, targetLine) as a function of its arguments.
getDiffPosition(p, target) ==
    IF NoPatch(p) THEN Null
    ELSE ScanFrom(Split(p.v, "\n"), 1, 0, 0, target)

\* ------------------------------------------------------------------------
\* The response sanitizer: replace, trim and JSON.parse
\* ------------------------------------------------------------------------

\* The grave accent U+0060, which a TLA+ string literal cannot hold, as one
\* character.
BQ == "grave"

FenceJson == <<BQ, BQ, BQ, "j", "s", "o", "n">>

Fence == <<BQ, BQ, BQ>>

\* Whitespace that trim() strips and JSON.parse skips, as far as the texts
\* of this model hold any.
WhiteSpace == {" ", "\n", "\t", "\r"}

RECURSIVE RemoveAll(_, _)
\* s.replace(/pat/g, "") for a literal pattern: the leftmost matches, none
\* overlapping, are removed in one pass.
RemoveAll(s, pat) ==
    IF Len(s) = 0 THEN <<>>
    ELSE IF StartsWith(s, pat) THEN RemoveAll(From(s, Len(pat) + 1), pat)
    ELSE <<Head(s)>> \o RemoveAll(Tail(s), pat)

\* String.prototype.trim
Trim(s) ==
    IF \A i \in 1..Len(s) : s[i] \in WhiteSpace THEN <<>>
    ELSE LET a == CHOOSE i \in 1..Len(s) :
                      /\ s[i] \notin WhiteSpace
                      /\ \A j \in 1..(i - 1) : s[j] \in WhiteSpace
             b == CHOOSE i \in 1..Len(s) :
                      /\ s[i] \notin WhiteSpace
                      /\ \A j \in (i + 1)..Len(s) : s[j] \in WhiteSpace
         IN SubSeq(s, a, b)

\* A plausible slip: only the bare fences are removed, so the language tag
\* of an opening fence stays in the text.
CleanFencesOnly(response) ==
    IF response = Undefined THEN Undefined
    ELSE JStr(Trim(RemoveAll(response.v, Fence)))

\* inlineResponse?.replace(/FenceJson/g, "")?.replace(/Fence/g, "")?.trim()
Clean(response) ==
    IF response = Undefined THEN Undefined
    ELSE JStr(Trim(RemoveAll(RemoveAll(response.v, FenceJson), Fence)))

ParseFail == [ok |-> FALSE, val |-> Undefined, pos |-> 0]

ParseOk(v, p) == [ok |-> TRUE, val |-> v, pos |-> p]

\* The first index at or after i of s that holds no JSON whitespace.
SkipWs(s, i) ==
    CHOOSE e \in i..(Len(s) + 1) :
        /\ \A j \in i..(e - 1) : s[j] \in WhiteSpace
        /\ (e <= Len(s) => s[e] \notin WhiteSpace)

\* The character a JSON escape \c stands for ("" where \c is no escape of
\* this model; \uXXXX is not modelled and no text of the model holds it).
Unescape(c) ==
    CASE c = "\"" -> "\"" [] c = "\\" -> "\\" [] c = "/" -> "/"
      [] c = "n" -> "\n" [] c = "t" -> "\t" [] c = "r" -> "\r"
      [] OTHER -> ""

RECURSIVE ParseString(_, _, _)
\* A JSON string whose opening quote precedes index i.
ParseString(s, i, acc) ==
    IF i > Len(s) THEN ParseFail
    ELSE IF s[i] = "\"" THEN ParseOk(JStr(acc), i + 1)
    ELSE IF s[i] \in {"\n", "\t", "\r"} THEN ParseFail
    ELSE IF s[i] = "\\"
         THEN IF i + 1 > Len(s) \/ Unescape(s[i + 1]) = "" THEN ParseFail
              ELSE ParseString(s, i + 2, Append(acc, Unescape(s[i + 1])))
    ELSE ParseString(s, i + 1, Append(acc, s[i]))

\* A JSON number at index i: -?(0|[1-9][0-9]*).  Fractions and exponents are
\* not modelled; no text of the model holds "." or an exponent after a digit.
ParseNumber(s, i) ==
    LET neg == s[i] = "-"
        j   == IF neg THEN i + 1 ELSE i
        e   == IF j <= Len(s) /\ s[j] = "0" THEN j + 1 ELSE DigitRunEnd(s, j)
    IN IF j > Len(s) \/ e = j THEN ParseFail
       ELSE LET n == parseInt(SubSeq(s, j, e - 1))
            IN ParseOk(JNum(IF neg THEN 0 - n ELSE n), e)

RECURSIVE ParseValue(_, _)
RECURSIVE ParseElements(_, _, _)
RECURSIVE ParseMembers(_, _, _)

\* A JSON value at or after index i, leading whitespace skipped.
ParseValue(s, i) ==
    LET j == SkipWs(s, i) IN
    IF j > Len(s) THEN ParseFail
    ELSE IF s[j] = "["
         THEN LET k == SkipWs(s, j + 1)
              IN IF k <= Len(s) /\ s[k] = "]" THEN ParseOk(JArr(<<>>), k + 1)
                 ELSE ParseElements(s, j + 1, <<>>)
    ELSE IF s[j] = "{"
         THEN LET k == SkipWs(s, j + 1)
              IN IF k <= Len(s) /\ s[k] = "}" THEN ParseOk(JObj(<<>>), k + 1)
                 ELSE ParseMembers(s, j + 1, <<>>)
    ELSE IF s[j] = "\"" THEN ParseString(s, j + 1, <<>>)
    ELSE IF s[j] = "-" \/ s[j] \in Digits THEN ParseNumber(s, j)
    ELSE IF StartsWith(From(s, j), <<"n", "u", "l", "l">>) THEN ParseOk(Null, j + 4)
    ELSE IF StartsWith(From(s, j), <<"t", "r", "u", "e">>)
         THEN ParseOk(JBool(TRUE), j + 4)
    ELSE IF StartsWith(From(s, j), <<"f", "a", "l", "s", "e">>)
         THEN ParseOk(JBool(FALSE), j + 5)
    ELSE ParseFail

\* The elements of an array, the first at or after index i.
ParseElements(s, i, acc) ==
    LET r == ParseValue(s, i) IN
    IF ~r.ok THEN ParseFail
    ELSE LET k == SkipWs(s, r.pos) IN
         IF k > Len(s) THEN ParseFail
         ELSE IF s[k] = "," THEN ParseElements(s, k + 1, Append(acc, r.val))
         ELSE IF s[k] = "]" THEN ParseOk(JArr(Append(acc, r.val)), k + 1)
         ELSE ParseFail

\* The members of an object, the first at or after index i.
ParseMembers(s, i, acc) ==
    LET j == SkipWs(s, i) IN
    IF j > Len(s) \/ s[j] # "\"" THEN ParseFail
    ELSE LET key == ParseString(s, j + 1, <<>>) IN
         IF ~key.ok THEN ParseFail
         ELSE LET c == SkipWs(s, key.pos) IN
              IF c > Len(s) \/ s[c] # ":" THEN ParseFail
              ELSE LET r == ParseValue(s, c + 1) IN
                   IF ~r.ok THEN ParseFail
                   ELSE LET k == SkipWs(s, r.pos)
                            m == Append(acc, <<key.val.v, r.val>>)
                        IN IF k > Len(s) THEN ParseFail
                           ELSE IF s[k] = "," THEN ParseMembers(s, k + 1, m)
                           ELSE IF s[k] = "}" THEN ParseOk(JObj(m), k + 1)
                           ELSE ParseFail

\* String(v) for the values JSON.parse is handed here.
ToText(v) ==
    IF v = Undefined THEN <<"u", "n", "d", "e", "f", "i", "n", "e", "d">>
    ELSE v.v

\* JSON.parse(v): ok and the value, or not ok where JSON.parse throws a
\* SyntaxError.
JSONparse(v) ==
    LET s == ToText(v)
        r == ParseValue(s, 1)
    IN IF r.ok /\ SkipWs(s, r.pos) > Len(s)
       THEN [ok |-> TRUE, val |-> r.val]
       ELSE [ok |-> FALSE, val |-> Undefined]

\* A plausible slip: no catch around the parse, so a failed parse leaves
\* the comments undefined.
CommentsUncaught(response) ==
    JSONparse(Clean(response)).val

\* let inlineComments = []; try { inlineComments = JSON.parse(cleaned) }
\* catch (err) { ... } : the comments after the try block.
CommentsAfterParse(response) ==
    LET r == JSONparse(Clean(response))
    IN IF r.ok THEN r.val ELSE JArr(<<>>)

\* ------------------------------------------------------------------------
\* JavaScript property access, truthiness and String()
\* ------------------------------------------------------------------------

\* !v
Falsy(v) ==
    \/ v \in {Undefined, Null}
    \/ (v.t = "num" /\ v.v = 0)
    \/ (v.t = "str" /\ v.v = <<>>)
    \/ (v.t = "bool" /\ ~v.v)

\* Whether v.key throws a TypeError.
PropThrows(v) == v \in {Undefined, Null}

\* v.key of a value that is neither undefined nor null.  JSON.parse keeps
\* the last of an object's members of the same name.
GetProp(v, key) ==
    IF v.t = "obj"
    THEN IF \A i \in 1..Len(v.v) : v.v[i][1] # key THEN Undefined
         ELSE v.v[CHOOSE i \in 1..Len(v.v) :
                      /\ v.v[i][1] = key
                      /\ \A j \in (i + 1)..Len(v.v) : v.v[j][1] # key][2]
    ELSE IF v.t \in {"arr", "str"} /\ key = <<"l", "e", "n", "g", "t", "h">>
         THEN JNum(Len(v.v))
    ELSE Undefined

\* v?.key
OptProp(v, key) == IF PropThrows(v) THEN Undefined ELSE GetProp(v, key)

RECURSIVE NatText(_)
\* The decimal digits of a natural number.
NatText(n) ==
    LET d == <<CHOOSE c \in Digits : DigitValue(c) = n % 10>>
    IN IF n < 10 THEN d ELSE NatText(n \div 10) \o d

RECURSIVE ToStringJS(_)
RECURSIVE JoinValues(_)
\* String(v), as a template literal applies it.
ToStringJS(v) ==
    CASE v = Undefined -> <<"u", "n", "d", "e", "f", "i", "n", "e", "d">>
      [] v = Null -> <<"n", "u", "l", "l">>
      [] v.t = "str" -> v.v
      [] v.t = "num" -> IF v.v < 0 THEN <<"-">> \o NatText(0 - v.v) ELSE NatText(v.v)
      [] v.t = "bool" -> IF v.v THEN <<"t", "r", "u", "e">>
                         ELSE <<"f", "a", "l", "s", "e">>
      [] v.t = "arr" -> JoinValues(v.v)
      [] v.t = "obj" -> <<"[", "o", "b", "j", "e", "c", "t", " ",
                          "O", "b", "j", "e", "c", "t", "]">>

\* Array.prototype.join(","), which String() of an array is.
JoinValues(a) ==
    LET text(e) == IF e \in {Undefined, Null} THEN <<>> ELSE ToStringJS(e)
    IN IF Len(a) = 0 THEN <<>>
       ELSE IF Len(a) = 1 THEN text(a[1])
       ELSE text(a[1]) \o <<",">> \o JoinValues(Tail(a))

\* ------------------------------------------------------------------------
\* The script's names: property keys, review modes, message prefixes
\* ------------------------------------------------------------------------

KeyPullRequest == <<"p", "u", "l", "l", "_", "r", "e", "q", "u", "e", "s", "t">>

KeyNumber == <<"n", "u", "m", "b", "e", "r">>

KeyLength == <<"l", "e", "n", "g", "t", "h">>

KeyFile == <<"f", "i", "l", "e">>

KeyLine == <<"l", "i", "n", "e">>

KeyComment == <<"c", "o", "m", "m", "e", "n", "t">>

ModeInline == JStr(<<"i", "n", "l", "i", "n", "e">>)

ModeSummary == JStr(<<"s", "u", "m", "m", "a", "r", "y">>)

ModeFull == JStr(<<"f", "u", "l", "l">>)

\* The light-bulb sign U+1F4A1 that opens every inline comment, as one
\* character.
Bulb == "bulb"

\* The robot sign U+1F916 that opens the summary comment, as one character.
Robot == "robot"

SummaryHeading ==
    <<Robot, " ", "*", "*", "G", "e", "m", "i", "n", "i", " ", "S", "u", "m",
      "m", "a", "r", "y", " ", "R", "e", "v", "i", "e", "w", "*", "*", "\n",
      "\n">>

\* body: `<bulb> ${c.comment}`
InlineBody(comment) == <<Bulb, " ">> \o ToStringJS(comment)

\* body: `<robot> **Gemini Summary Review**\n\n${summaryResponse}`
SummaryBody(response) == SummaryHeading \o ToStringJS(response)

\* fileDiffs += `\nFile: ${file.filename}\n${file.patch}\n`
FileDiff(file) ==
    <<"\n", "F", "i", "l", "e", ":", " ">> \o file.filename \o <<"\n">>
        \o ToStringJS(file.patch) \o <<"\n">>

RECURSIVE FileDiffs(_)
\* The loop over files that builds fileDiffs: files without a patch are
\* skipped.
FileDiffs(fs) ==
    IF Len(fs) = 0 THEN <<>>
    ELSE (IF Falsy(fs[1].patch) THEN <<>> ELSE FileDiff(fs[1]))
             \o FileDiffs(Tail(fs))

\* ------------------------------------------------------------------------
\* Inputs of getDiffPosition: patches made of the lines of a small pool
\* ------------------------------------------------------------------------

\* The hunk header of scenario A: the new range starts at line 1.
LineHdrA ==
    <<"@", "@", " ", "-", "1", ",", "2", " ", "+", "1", ",", "3", " ", "@",
      "@">>

\* A context line.
LineCtx1 ==
    <<" ", "l", "i", "n", "e", "1">>

\* An added line.
LineAdd2 ==
    <<"+", "l", "i", "n", "e", "2">>

\* Another context line.
LineCtx3 ==
    <<" ", "l", "i", "n", "e", "3">>

\* A removed line.
LineRem ==
    <<"-", "o", "l", "d">>

\* A later hunk header: the new range starts at line 4.
LineHdrB ==
    <<"@", "@", " ", "-", "3", ",", "2", " ", "+", "4", ",", "3", " ", "@",
      "@">>

\* The marker a unified diff puts after a last line that has no newline.
\* It is a line of neither file.
LineNoNl ==
    <<"\\", " ", "N", "o", " ", "n", "e", "w", "l", "i", "n", "e", " ", "a",
      "t", " ", "e", "n", "d", " ", "o", "f", " ", "f", "i", "l", "e">>

\* A hunk header whose old range gives no length: the new range starts at
\* line 1.
LineHdrC ==
    <<"@", "@", " ", "-", "1", " ", "+", "1", ",", "2", " ", "@", "@">>

\* A line that starts as a hunk header and holds no ranges.
LineHdrBad ==
    <<"@", "@", " ", "b", "i", "n", "a", "r", "y">>

PatchLinePool ==
    {LineHdrA, LineCtx1, LineAdd2, LineCtx3, LineRem, LineHdrB, LineHdrC,
     LineNoNl, LineHdrBad}

\* Scenario A: a hunk with one added line between two context lines.
ScenarioALines == <<LineHdrA, LineCtx1, LineAdd2, LineCtx3>>

\* A one-line file without a final newline that gains a second line: the
\* marker follows the removed line.
NoNewlineLines == <<LineHdrC, LineRem, LineNoNl, LineAdd2, LineAdd2>>

\* Two hunks; the added line of the second is line 5 of the new file and
\* the sixth line of the patch.
TwoHunkLines == <<LineHdrA, LineCtx1, LineAdd2, LineHdrB, LineCtx3, LineAdd2>>

\* Every sequence of at most n lines of the pool.
LineSeqs(n) == UNION {[1..k -> PatchLinePool] : k \in 0..n}

PatchLineSeqs ==
    LineSeqs(MaxPatchLines) \cup {ScenarioALines, NoNewlineLines, TwoHunkLines}

\* file.patch as the hosting API gives it: the lines joined by newlines.
PatchOf(ls) == JStr(Join(ls, "\n"))

\* ------------------------------------------------------------------------
\* Inputs of the sanitizer and of main
\* ------------------------------------------------------------------------

TextEmptyList == <<"[", "]">>

\* The truncated output of scenario D.
TextTruncated ==
    <<"[", "\"", "n", "o", "t", " ", "j", "s", "o", "n", "\"">>

TextProse == <<"o", "k">>

TextNull == <<"n", "u", "l", "l">>

\* One comment on a.js whose "line" is 2.
TextOneComment ==
    <<"[", "{", "\"", "f", "i", "l", "e", "\"", ":", "\"", "a", ".", "j",
      "s", "\"", ",", "\"", "l", "i", "n", "e", "\"", ":", "2", ",", "\"",
      "c", "o", "m", "m", "e", "n", "t", "\"", ":", "\"", "x", "\"", "}",
      "]">>

\* The same comment inside a fence with the language tag json.
TextFenced == FenceJson \o <<"\n">> \o TextOneComment \o <<"\n">> \o Fence

TextNullElement == <<"[", "n", "u", "l", "l", "]">>

TextString == <<"\"", "a", "b", "\"">>

TextLengthObject ==
    <<"{", "\"", "l", "e", "n", "g", "t", "h", "\"", ":", "1", "}">>

InlineTexts ==
    {TextEmptyList, TextTruncated, TextProse, TextNull, TextOneComment,
     TextFenced, TextNullElement, TextString, TextLengthObject}

\* What callGemini resolves to for the inline prompt: the text of the first
\* candidate, or undefined when the reply holds none.
InlineResponses == {Undefined} \cup {JStr(x) : x \in InlineTexts}

\* What callGemini resolves to for the summary prompt.
SummaryResponses == {Undefined, JStr(<<>>), JStr(<<"L", "G", "T", "M">>)}

\* The characters the sanitizer's exhaustive texts are made of.
TextAlphabet == {BQ, "j", "[", "]", " ", "\n", "1"}

ShortTexts == UNION {[1..k -> TextAlphabet] : k \in 0..MaxTextLen}

SanitizerTexts == ShortTexts \cup InlineTexts

TagJson == <<"j", "s", "o", "n">>

TagJs == <<"j", "s">>

\* The language tags a fence is opened with.
FenceTags == {TagJson, TagJs}

\* What stands between the fences and the text: a newline, or nothing.
FenceSeparators == {<<"\n">>, <<>>}

\* x wrapped in fenced-code markers with a language tag.
Wrap(x, tag, sep) == Fence \o tag \o sep \o x \o sep \o Fence

FileNameA == <<"a", ".", "j", "s">>

FileNameB == <<"b", ".", "p", "n", "g">>

\* A changed text file: scenario A's patch.
FileA == [filename |-> FileNameA, patch |-> PatchOf(ScenarioALines)]

\* A changed binary file: the hosting API gives no patch for it.
FileB == [filename |-> FileNameB, patch |-> Undefined]

\* What pulls.listFiles resolves to.
FileLists == {<<>>, <<FileA>>, <<FileB>>, <<FileA, FileB>>}

\* The event payloads: no pull_request, a pull_request without a number,
\* one whose number is null, and pull request 7.
EventNoPullRequest == JObj(<<>>)

EventNoNumber == JObj(<< <<KeyPullRequest, JObj(<<>>)>> >>)

EventNullNumber == JObj(<< <<KeyPullRequest, JObj(<< <<KeyNumber, Null>> >>)>> >>)

EventPr7 == JObj(<< <<KeyPullRequest, JObj(<< <<KeyNumber, JNum(7)>> >>)>> >>)

EventPayloads == {EventNoPullRequest, EventNoNumber, EventNullNumber, EventPr7}

\* process.env.REVIEW_MODE: unset, empty, the three modes, or another word.
EnvReviewModes ==
    {Undefined, JStr(<<>>), ModeInline, ModeSummary, ModeFull,
     JStr(<<"o", "f", "f">>)}

\* The two versions of the script in the repository: script/gemini-review.js
\* fetches the pull request's head commit before it posts the review; the
\* older unnamed/part_000 posts the review without it.
Scripts == {"script", "part_000"}

\* ------------------------------------------------------------------------
\* State
\* ------------------------------------------------------------------------

VARIABLES
    \* getDiffPosition
    patchLines,     \* the lines the patch is made of
    patch,          \* the argument patch
    targetLine,     \* the argument targetLine
    lines,          \* patch.split("\n")
    lineIdx,        \* the index in lines of the next line of the for loop
    fileLine,       \* let fileLine
    position,       \* let position
    result,         \* the value returned, Undefined until the return
    rpc,            \* "idle", "call", "loop" or "done"
    \* the sanitizer applied to a text and to the same text in fences
    rawText,        \* the model's output x
    fenceTag,       \* the language tag of the opening fence
    fenceSep,       \* what stands between the fences and x
    plainParse,     \* JSON.parse of x cleaned
    fencedParse,    \* JSON.parse of x in fences, cleaned
    spc,            \* "idle", "start", "plain" or "done"
    \* the script and main()
    script,         \* which version of the script runs
    eventData,      \* the event payload
    envReviewMode,  \* process.env.REVIEW_MODE
    prNumber,       \* const prNumber
    REVIEW_MODE,    \* const REVIEW_MODE
    files,          \* const { data: files }
    fileDiffs,      \* let fileDiffs
    inlineResponse, \* const inlineResponse
    inlineComments, \* let inlineComments
    summaryResponse,\* const summaryResponse
    calls,          \* the network calls made so far, each with its outcome
    logs,           \* what console.log and console.error have written
    exitCode,       \* the process's exit status, -1 while it runs
    pc              \* where the script stands

rvars ==
    <<patchLines, patch, targetLine, lines, lineIdx, fileLine, position,
      result, rpc>>

svars == <<rawText, fenceTag, fenceSep, plainParse, fencedParse, spc>>

mvars ==
    <<script, eventData, envReviewMode, prNumber, REVIEW_MODE, files,
      fileDiffs, inlineResponse, inlineComments, summaryResponse, calls,
      logs, exitCode, pc>>

vars == <<rvars, svars, mvars>>

\* ------------------------------------------------------------------------
\* getDiffPosition, one loop iteration per step
\* ------------------------------------------------------------------------

ResolverIdle ==
    /\ patchLines = <<>>
    /\ patch = Undefined
    /\ targetLine = 0
    /\ lines = <<>>
    /\ lineIdx = 0
    /\ fileLine = 0
    /\ position = 0
    /\ result = Undefined
    /\ rpc = "idle"

ResolverInit ==
    /\ patchLines \in PatchLineSeqs
    /\ patch \in {PatchOf(patchLines), Undefined}
    /\ (patch = Undefined => patchLines = <<>>)
    /\ targetLine \in 0..MaxTarget
    /\ lines = <<>>
    /\ lineIdx = 0
    /\ fileLine = 0
    /\ position = 0
    /\ result = Undefined
    /\ rpc = "call"

\* if (!patch) return null; const lines = patch.split("\n");
\* let fileLine = 0; let position = 0;
EnterGetDiffPosition ==
    /\ rpc = "call"
    /\ IF NoPatch(patch)
       THEN /\ result' = Null
            /\ rpc' = "done"
            /\ UNCHANGED <<lines, lineIdx>>
       ELSE /\ lines' = Split(patch.v, "\n")
            /\ lineIdx' = 1
            /\ rpc' = "loop"
            /\ UNCHANGED result
    /\ fileLine' = 0
    /\ position' = 0
    /\ UNCHANGED <<patchLines, patch, targetLine>>
    /\ UNCHANGED <<svars, mvars>>

\* The line of the current iteration.
CurrentLine == lines[lineIdx]

InLoop == rpc = "loop" /\ lineIdx <= Len(lines)

\* The iteration goes on to the next line.
NextIteration ==
    /\ lineIdx' = lineIdx + 1
    /\ UNCHANGED <<result, rpc>>

\* position++; if (line.startsWith("@@")) { const match = ...exec(line);
\* if (match) fileLine = parseInt(match[1], 10) - 1; }
ScanHunkHeader ==
    /\ InLoop
    /\ StartsWith(CurrentLine, AtAt)
    /\ position' = NextPosition(position, CurrentLine)
    /\ fileLine' = NextFileLine(fileLine, CurrentLine)
    /\ NextIteration
    /\ UNCHANGED <<patchLines, patch, targetLine, lines>>
    /\ UNCHANGED <<svars, mvars>>

\* position++; else if (line.startsWith("+")) { fileLine++;
\* if (fileLine === targetLine) return position; }
ScanAddedLine ==
    /\ InLoop
    /\ ~StartsWith(CurrentLine, AtAt)
    /\ StartsWith(CurrentLine, Plus)
    /\ position' = NextPosition(position, CurrentLine)
    /\ fileLine' = NextFileLine(fileLine, CurrentLine)
    /\ IF ReturnsAt(fileLine, CurrentLine, targetLine)
       THEN /\ result' = JNum(position')
            /\ rpc' = "done"
            /\ UNCHANGED lineIdx
       ELSE NextIteration
    /\ UNCHANGED <<patchLines, patch, targetLine, lines>>
    /\ UNCHANGED <<svars, mvars>>

\* position++; else if (!line.startsWith("-")) { fileLine++; }
ScanOtherLine ==
    /\ InLoop
    /\ ~StartsWith(CurrentLine, AtAt)
    /\ ~StartsWith(CurrentLine, Plus)
    /\ ~StartsWith(CurrentLine, Minus)
    /\ position' = NextPosition(position, CurrentLine)
    /\ fileLine' = NextFileLine(fileLine, CurrentLine)
    /\ NextIteration
    /\ UNCHANGED <<patchLines, patch, targetLine, lines>>
    /\ UNCHANGED <<svars, mvars>>

\* position++; a line that starts with "-" leaves fileLine alone.
ScanRemovedLine ==
    /\ InLoop
    /\ ~StartsWith(CurrentLine, AtAt)
    /\ ~StartsWith(CurrentLine, Plus)
    /\ StartsWith(CurrentLine, Minus)
    /\ position' = NextPosition(position, CurrentLine)
    /\ fileLine' = NextFileLine(fileLine, CurrentLine)
    /\ NextIteration
    /\ UNCHANGED <<patchLines, patch, targetLine, lines>>
    /\ UNCHANGED <<svars, mvars>>

\* The loop has run over every line: return null.
ReturnNull ==
    /\ rpc = "loop"
    /\ lineIdx > Len(lines)
    /\ result' = Null
    /\ rpc' = "done"
    /\ UNCHANGED <<patchLines, patch, targetLine, lines, lineIdx, fileLine,
                   position>>
    /\ UNCHANGED <<svars, mvars>>

\* ------------------------------------------------------------------------
\* The sanitizer on a text and on the same text in fences
\* ------------------------------------------------------------------------

SanitizerIdle ==
    /\ rawText = <<>>
    /\ fenceTag = <<>>
    /\ fenceSep = <<>>
    /\ plainParse = Undefined
    /\ fencedParse = Undefined
    /\ spc = "idle"

SanitizerInit ==
    /\ rawText \in SanitizerTexts
    /\ fenceTag \in FenceTags
    /\ fenceSep \in FenceSeparators
    /\ plainParse = Undefined
    /\ fencedParse = Undefined
    /\ spc = "start"

\* The model's output is cleaned and parsed as it is.
SanitizePlain ==
    /\ spc = "start"
    /\ plainParse' = JSONparse(Clean(JStr(rawText)))
    /\ spc' = "plain"
    /\ UNCHANGED <<rawText, fenceTag, fenceSep, fencedParse>>
    /\ UNCHANGED <<rvars, mvars>>

\* The same output is cleaned and parsed inside fences.
SanitizeFenced ==
    /\ spc = "plain"
    /\ fencedParse' = JSONparse(Clean(JStr(Wrap(rawText, fenceTag, fenceSep))))
    /\ spc' = "done"
    /\ UNCHANGED <<rawText, fenceTag, fenceSep, plainParse>>
    /\ UNCHANGED <<rvars, mvars>>

\* ------------------------------------------------------------------------
\* The script's top level and main(), one network call per step
\* ------------------------------------------------------------------------

MainIdle ==
    /\ script = "script"
    /\ eventData = Undefined
    /\ envReviewMode = Undefined
    /\ prNumber = Undefined
    /\ REVIEW_MODE = Undefined
    /\ files = <<>>
    /\ fileDiffs = <<>>
    /\ inlineResponse = Undefined
    /\ inlineComments = JArr(<<>>)
    /\ summaryResponse = Undefined
    /\ calls = <<>>
    /\ logs = <<>>
    /\ exitCode = -1
    /\ pc = "idle"

MainInit ==
    /\ script \in Scripts
    /\ eventData \in EventPayloads
    /\ envReviewMode \in EnvReviewModes
    /\ prNumber = Undefined
    /\ REVIEW_MODE = Undefined
    /\ files = <<>>
    /\ fileDiffs = <<>>
    /\ inlineResponse = Undefined
    /\ inlineComments = JArr(<<>>)
    /\ summaryResponse = Undefined
    /\ calls = <<>>
    /\ logs = <<>>
    /\ exitCode = -1
    /\ pc = "start"

\* A network call with its argument and whether it was fulfilled.
Call(api, arg, ok) == [api |-> api, arg |-> arg, ok |-> ok]

\* The argument of a callGemini call: the output format of the prompt, the
\* name of the environment variable that holds the key, and the diffs.
GeminiArg(format, key) == [format |-> format, apiKey |-> key, diffs |-> fileDiffs]

\* REVIEW_MODE === "inline" || REVIEW_MODE === "full"
WantsInline == REVIEW_MODE = ModeInline \/ REVIEW_MODE = ModeFull

\* REVIEW_MODE === "summary" || REVIEW_MODE === "full"
WantsSummary == REVIEW_MODE = ModeSummary \/ REVIEW_MODE = ModeFull

\* A plausible slip: only an absent number counts as missing.
PrNumberUndefined(v) == v = Undefined

\* if (!prNumber)
PrNumberMissing(v) == Falsy(v)

\* main().catch: the error is written and the process exits with status 1.
Fatal(lg) ==
    /\ logs' = Append(lg, "error")
    /\ exitCode' = 1
    /\ pc' = "exited"

\* console.log("Review completed."): main() returns and the process exits
\* with status 0.
Completed(lg) ==
    /\ logs' = Append(lg, "reviewCompleted")
    /\ exitCode' = 0
    /\ pc' = "exited"

\* The summary block, up to its callGemini call.
ToSummaryStage(lg) ==
    IF WantsSummary
    THEN /\ logs' = Append(lg, "generatingSummary")
         /\ pc' = "summaryGenerate"
         /\ UNCHANGED exitCode
    ELSE Completed(lg)

\* The inline block, up to its callGemini call.
ToInlineStage(lg) ==
    IF WantsInline
    THEN /\ logs' = Append(lg, "generatingInline")
         /\ pc' = "inlineGenerate"
         /\ UNCHANGED exitCode
    ELSE ToSummaryStage(lg)

\* The catch block around pulls.get and createReview, and the log that
\* follows it.
CaughtInReviewBlock ==
    ToSummaryStage(logs \o <<"createReviewFailed", "generatedComments",
                             "addedComments">>)

\* Whether inlineComments.map((c) => ({ path: c.file, ... })) throws: the
\* value has no map method, or an element is null.
MapThrows(v) ==
    IF v.t # "arr" THEN TRUE
    ELSE \E i \in 1..Len(v.v) : PropThrows(v.v[i])

\* position: c.line
CommentPosition(c) == GetProp(c, KeyLine)

\* inlineComments.map((c) => ({ path: c.file, position: c.line,
\* body: `<bulb> ${c.comment}` }))
ReviewComments(v) ==
    [i \in 1..Len(v.v) |->
        [path |-> GetProp(v.v[i], KeyFile),
         position |-> CommentPosition(v.v[i]),
         body |-> InlineBody(GetProp(v.v[i], KeyComment))]]

\* The top level of the script: the pull request's number is read from the
\* event payload; without one the process exits with status 1.  Otherwise
\* the configuration is read and main() runs up to pulls.listFiles.
ReadEvent ==
    /\ pc = "start"
    /\ prNumber' = OptProp(GetProp(eventData, KeyPullRequest), KeyNumber)
    /\ IF PrNumberMissing(prNumber')
       THEN /\ logs' = Append(logs, "cannotDeterminePr")
            /\ exitCode' = 1
            /\ pc' = "exited"
            /\ UNCHANGED REVIEW_MODE
       ELSE /\ REVIEW_MODE' = IF Falsy(envReviewMode) THEN ModeFull
                              ELSE envReviewMode
            /\ logs' = Append(logs, "fetching")
            /\ pc' = "listFiles"
            /\ UNCHANGED exitCode
    /\ UNCHANGED <<script, eventData, envReviewMode, files, fileDiffs,
                   inlineResponse, inlineComments, summaryResponse, calls>>
    /\ UNCHANGED <<rvars, svars>>

\* await octokit.pulls.listFiles(...), then the code up to the next call.
ListFiles ==
    /\ pc = "listFiles"
    /\ \/ /\ calls' = Append(calls, Call("listFiles", prNumber, FALSE))
          /\ Fatal(logs)
          /\ UNCHANGED <<files, fileDiffs>>
       \/ \E fs \in FileLists :
            /\ calls' = Append(calls, Call("listFiles", prNumber, TRUE))
            /\ files' = fs
            /\ fileDiffs' = FileDiffs(fs)
            /\ ToInlineStage((IF Len(fs) = 0 THEN Append(logs, "noFilesChanged")
                              ELSE logs) \o <<"sending">>)
    /\ UNCHANGED <<script, eventData, envReviewMode, prNumber, REVIEW_MODE,
                   inlineResponse, inlineComments, summaryResponse>>
    /\ UNCHANGED <<rvars, svars>>

\* await callGemini(... inlineFormat ...), the cleaning and parsing of the
\* response, and the test of inlineComments.length.
InlineGenerate ==
    /\ pc = "inlineGenerate"
    /\ \/ /\ calls' = Append(calls, Call("callGemini",
                                 GeminiArg("inline", "GEMINI_API_KEY"), FALSE))
          /\ Fatal(logs)
          /\ UNCHANGED <<inlineResponse, inlineComments>>
       \/ \E r \in InlineResponses :
            /\ calls' = Append(calls, Call("callGemini",
                                   GeminiArg("inline", "GEMINI_API_KEY"), TRUE))
            /\ inlineResponse' = r
            /\ inlineComments' = CommentsAfterParse(r)
            /\ LET lg == IF JSONparse(Clean(r)).ok
                         THEN IF script = "script"
                              THEN Append(logs, "generatedComments")
                              ELSE logs
                         ELSE logs \o <<"invalidJson", "rawResponse">>
               IN IF PropThrows(inlineComments')
                  THEN Fatal(lg)
                  ELSE IF ~Falsy(GetProp(inlineComments', KeyLength))
                  THEN /\ logs' = lg
                       /\ pc' = IF script = "script" THEN "pullsGet"
                                ELSE "createReview"
                       /\ UNCHANGED exitCode
                  ELSE ToSummaryStage(Append(lg, "noInlineIssues"))
    /\ UNCHANGED <<script, eventData, envReviewMode, prNumber, REVIEW_MODE,
                   files, fileDiffs, summaryResponse>>
    /\ UNCHANGED <<rvars, svars>>

\* await octokit.pulls.get(...), inside the try block.
PullsGet ==
    /\ pc = "pullsGet"
    /\ \/ /\ calls' = Append(calls, Call("pulls.get", prNumber, FALSE))
          /\ CaughtInReviewBlock
       \/ /\ calls' = Append(calls, Call("pulls.get", prNumber, TRUE))
          /\ pc' = "createReview"
          /\ UNCHANGED <<logs, exitCode>>
    /\ UNCHANGED <<script, eventData, envReviewMode, prNumber, REVIEW_MODE,
                   files, fileDiffs, inlineResponse, inlineComments,
                   summaryResponse>>
    /\ UNCHANGED <<rvars, svars>>

\* await octokit.pulls.createReview({ ..., comments: inlineComments.map(...) }),
\* inside the try block, and the log after it.
CreateReview ==
    /\ pc = "createReview"
    /\ \/ /\ MapThrows(inlineComments)
          /\ UNCHANGED calls
          /\ CaughtInReviewBlock
       \/ /\ ~MapThrows(inlineComments)
          /\ calls' = Append(calls, Call("createReview",
                                 ReviewComments(inlineComments), FALSE))
          /\ CaughtInReviewBlock
       \/ /\ ~MapThrows(inlineComments)
          /\ calls' = Append(calls, Call("createReview",
                                 ReviewComments(inlineComments), TRUE))
          /\ ToSummaryStage(Append(logs, "addedComments"))
    /\ UNCHANGED <<script, eventData, envReviewMode, prNumber, REVIEW_MODE,
                   files, fileDiffs, inlineResponse, inlineComments,
                   summaryResponse>>
    /\ UNCHANGED <<rvars, svars>>

\* await callGemini(... summaryFormat ...) and the test of summaryResponse.
SummaryGenerate ==
    /\ pc = "summaryGenerate"
    /\ \/ /\ calls' = Append(calls, Call("callGemini",
                                 GeminiArg("summary", "GEMINI_API_KEY_2"), FALSE))
          /\ Fatal(logs)
          /\ UNCHANGED summaryResponse
       \/ \E r \in SummaryResponses :
            /\ calls' = Append(calls, Call("callGemini",
                                   GeminiArg("summary", "GEMINI_API_KEY_2"), TRUE))
            /\ summaryResponse' = r
            /\ IF ~Falsy(r)
               THEN /\ pc' = "createComment"
                    /\ UNCHANGED <<logs, exitCode>>
               ELSE Completed(logs \o <<"noSummary", "response">>)
    /\ UNCHANGED <<script, eventData, envReviewMode, prNumber, REVIEW_MODE,
                   files, fileDiffs, inlineResponse, inlineComments>>
    /\ UNCHANGED <<rvars, svars>>

\* await octokit.issues.createComment(...) and the logs after it.
CreateComment ==
    /\ pc = "createComment"
    /\ \/ /\ calls' = Append(calls, Call("createComment",
                                 SummaryBody(summaryResponse), FALSE))
          /\ Fatal(logs)
       \/ /\ calls' = Append(calls, Call("createComment",
                                 SummaryBody(summaryResponse), TRUE))
          /\ Completed(Append(logs, "summaryPosted"))
    /\ UNCHANGED <<script, eventData, envReviewMode, prNumber, REVIEW_MODE,
                   files, fileDiffs, inlineResponse, inlineComments,
                   summaryResponse>>
    /\ UNCHANGED <<rvars, svars>>

\* ------------------------------------------------------------------------
\* Specifications
\* ------------------------------------------------------------------------

Init == MainInit /\ ResolverIdle /\ SanitizerIdle

Next ==
    \/ ReadEvent
    \/ ListFiles
    \/ InlineGenerate
    \/ PullsGet
    \/ CreateReview
    \/ SummaryGenerate
    \/ CreateComment

\* The script, from the reading of the event payload to the process's exit.
Spec == Init /\ [][Next]_vars

InitResolver == ResolverInit /\ SanitizerIdle /\ MainIdle

NextResolver ==
    \/ EnterGetDiffPosition
    \/ ScanHunkHeader
    \/ ScanAddedLine
    \/ ScanOtherLine
    \/ ScanRemovedLine
    \/ ReturnNull

\* getDiffPosition on every patch and target line of the bounds.
SpecResolver == InitResolver /\ [][NextResolver]_vars

InitSanitizer == SanitizerInit /\ ResolverIdle /\ MainIdle

NextSanitizer == SanitizePlain \/ SanitizeFenced

\* The sanitizer on every text of the bounds, plain and in fences.
SpecSanitizer == InitSanitizer /\ [][NextSanitizer]_vars

\* ------------------------------------------------------------------------
\* What a patch means, by the unified diff format (not by the code)
\* ------------------------------------------------------------------------

\* The hunk headers of the pool.
HunkHeaders == {LineHdrA, LineHdrB, LineHdrC}

\* The line of the new file a hunk header's new range starts at.
NewRangeStart(line) ==
    CASE line = LineHdrA -> 1
      [] line = LineHdrB -> 4
      [] line = LineHdrC -> 1

\* The lines of the pool that start with "@@".
AtAtLines == HunkHeaders \cup {LineHdrBad}

AddedLines == {LineAdd2}

ContextLines == {LineCtx1, LineCtx3}

RECURSIVE LastNewLine(_, _)
\* The number, in the new file, of the last line of the new file among the
\* first i lines of the patch ls: a hunk header sets it to its new range's
\* start minus 1, an added or a context line is the next line, and a removed
\* line or a no-newline marker is no line of the new file.  -1 while no hunk
\* header has said where the lines are.
LastNewLine(ls, i) ==
    IF i = 0 THEN -1
    ELSE LET prev == LastNewLine(ls, i - 1)
         IN IF ls[i] \in HunkHeaders THEN NewRangeStart(ls[i]) - 1
            ELSE IF ls[i] \in AddedLines \cup ContextLines /\ prev # -1
                 THEN prev + 1
            ELSE prev

\* Line i of the patch ls is an added line, and line n of the new file.
IsAddedLineOf(ls, i, n) ==
    /\ i \in 1..Len(ls)
    /\ ls[i] \in AddedLines
    /\ LastNewLine(ls, i) = n

\* The patch ls starts at a hunk header, as the patch of a changed text
\* file does: its first hunk header is its line 1.
StartsAtHeader(ls) == Len(ls) > 0 /\ ls[1] \in HunkHeaders

\* ------------------------------------------------------------------------
\* Claims about getDiffPosition (SpecResolver)
\* ------------------------------------------------------------------------

ResolverDone == rpc = "done"

\* C1: for every patch, its first hunk header being its line 1, and every
\* target line: when the target is the new-file line number of an added
\* line, getDiffPosition returns a position p such that line p of the patch
\* is that added line; when it is the number of no added line, it returns
\* null.
C1_PositionOfAddedLine ==
    (ResolverDone /\ StartsAtHeader(patchLines)) =>
        IF \E i \in 1..Len(patchLines) : IsAddedLineOf(patchLines, i, targetLine)
        THEN /\ result.t = "num"
             /\ IsAddedLineOf(patchLines, result.v, targetLine)
        ELSE result = Null

\* C2: on scenario A's patch, getDiffPosition returns position 2 for target
\* line 2.
C2_ScenarioAPosition ==
    (/\ ResolverDone
     /\ patch = PatchOf(ScenarioALines)
     /\ targetLine = 2) => result = JNum(2)

\* C6: for a patch without a line that starts with "@@", getDiffPosition
\* returns null for every target line.
C6_NoHeaderNotFound ==
    (/\ ResolverDone
     /\ \A i \in 1..Len(patchLines) : patchLines[i] \notin AtAtLines)
        => result = Null

C9_FencedParsesAlike ==
    spc = "done" => fencedParse = plainParse

\* C9, amended: the same, for fences whose language tag is json.
C9_JsonFencedParsesAlike ==
    (spc = "done" /\ fenceTag = TagJson) => fencedParse = plainParse

\* C9's case: a text that parses to a list with a comment in it has been
\* cleaned and parsed inside json fences.
C9_Witness ==
    /\ spc = "done"
    /\ fenceTag = TagJson
    /\ rawText = TextOneComment
    /\ fencedParse.ok
    /\ Len(fencedParse.val.v) = 1

\* ------------------------------------------------------------------------
\* Claims about the script (Spec)
\* ------------------------------------------------------------------------

\* The calls of the api made so far.
CallsOf(api) == {k \in 1..Len(calls) : calls[k].api = api}

\* The text-generation calls made so far with the prompt of the format.
GenerationCalls(format) ==
    {k \in CallsOf("callGemini") : calls[k].arg.format = format}

Logged(what) == \E k \in 1..Len(logs) : logs[k] = what

\* The inline stage has run and something in it failed: the generation call
\* or a call of the review block was rejected, or the output did not parse,
\* or it parsed to something that is no list.
InlineStageFailed ==
    /\ GenerationCalls("inline") # {}
    /\ \/ \E k \in GenerationCalls("inline") : ~calls[k].ok
       \/ \E k \in CallsOf("pulls.get") \cup CallsOf("createReview") : ~calls[k].ok
       \/ Logged("invalidJson")
       \/ inlineComments = Null
       \/ inlineComments.t # "arr"

\* C3: in full mode a failure inside the inline stage is caught there: the
\* summary generation call is still made, and the process does not end on
\* that failure.
C3_InlineFailureIsolated ==
    (/\ pc = "exited"
     /\ REVIEW_MODE = ModeFull
     /\ InlineStageFailed) => GenerationCalls("summary") # {}

\* The responses that are no structured text at all: scenario D's truncated
\* list, and prose.
UnparseableResponses == {JStr(TextTruncated), JStr(TextProse)}

\* The inline generation call has returned a response that cannot be parsed.
GotUnparseable ==
    /\ \E k \in GenerationCalls("inline") : calls[k].ok
    /\ inlineResponse \in UnparseableResponses

\* C4: when the inline output cannot be parsed, the failure is caught and
\* reported, the list of inline comments is empty, createReview is never
\* called, no error leaves the inline stage, and the summary mode, if
\* requested, still runs.
C4_MalformedOutputRecovered ==
    GotUnparseable =>
        /\ Logged("invalidJson")
        /\ inlineComments = JArr(<<>>)
        /\ CallsOf("createReview") = {}
        /\ IF WantsSummary
           THEN pc = "summaryGenerate" \/ GenerationCalls("summary") # {}
           ELSE pc = "exited" /\ exitCode = 0

\* C4's case: in full mode scenario D's truncated output came back, and the
\* summary generation call was made after it.
C4_Witness ==
    /\ GotUnparseable
    /\ inlineResponse = JStr(TextTruncated)
    /\ REVIEW_MODE = ModeFull
    /\ GenerationCalls("summary") # {}
    /\ pc = "exited"

\* pulls.listFiles has returned an empty list of files.
NoFilesChanged ==
    /\ \E k \in CallsOf("listFiles") : calls[k].ok
    /\ files = <<>>

\* C5: when the list of changed files is empty, the run logs the notice
\* and posts no comment, neither by createReview nor by createComment,
\* whatever the model returns.  (The claim's exit status of 0 is left out
\* here: a rejected call or a thrown error ends any run with status 1.)
C5_NoFilesNoComments ==
    NoFilesChanged =>
        /\ Logged("noFilesChanged")
        /\ CallsOf("createReview") = {}
        /\ CallsOf("createComment") = {}

\* The position the resolver computes for the comment c from the patch of
\* the file c names; what c.line holds where c names no file of the list.
ResolvedPosition(c) ==
    LET path == GetProp(c, KeyFile)
        line == GetProp(c, KeyLine)
        named == {k \in 1..Len(files) : JStr(files[k].filename) = path}
    IN IF named = {} \/ line.t # "num" THEN line
       ELSE getDiffPosition(files[CHOOSE k \in named : TRUE].patch, line.v)

\* C7: the position of every comment sent by createReview is the one
\* getDiffPosition computes from the file's patch and the comment's target
\* line, not the value the model reported.
C7_PositionsResolved ==
    \A k \in CallsOf("createReview") :
        \A i \in 1..Len(calls[k].arg) :
            calls[k].arg[i].position = ResolvedPosition(inlineComments.v[i])

\* The payloads that carry no pull-request number.
PayloadsWithoutNumber == {EventNoPullRequest, EventNoNumber, EventNullNumber}

\* C8: when the event payload carries no pull-request number, the process
\* exits with a non-zero status before any network call is made.
C8_NoNumberNoCalls ==
    eventData \in PayloadsWithoutNumber =>
        /\ calls = <<>>
        /\ (pc # "start" => pc = "exited" /\ exitCode # 0 /\ exitCode # -1)

\* C8's case: the payload has a pull_request without a number, and the
\* process has exited.
C8_Witness ==
    /\ eventData = EventNoNumber
    /\ pc = "exited"
    /\ Logged("cannotDeterminePr")

=============================================================================
